---- MODULE Spec2Model ----
\* Node-liveness caching of the grid proxy server (package explorer):
\* the redis-backed liveness cache, the process-local identity cache,
\* getNodeData and its callers (getNode, getNodeStatus, listNodes) and the
\* fleet refresher cacheNodesInfo with its counting semaphore.
EXTENDS Integers, Sequences, FiniteSets, TLC

\* ---------------------------------------------------------------- bounds

\* Number of node ids the cache model follows.
NumNodes == 1

Nodes == 1..NumNodes

\* Capacity figures (cru) a node reports through its counters.
Capacities == {4, 8}

\* The largest number of node ids one getAllNodesIDs answer holds.
NumFleetNodes == 31

\* The lengths of the node list a run of cacheNodesInfo may get.
FleetSizes == {0, 1, NumFleetNodes}

\* ------------------------------------------------------ program constants

\* helpers.go:21
maxGoRoutnes == 30
\* helpers.go:323, SetRedisKey(key, serializedNodeInfo, 30*60)
SnapshotTTL == 1800
\* helpers.go:281, SetRedisKey(key, "likely down", 10*60)
LikelyDownTTL == 600
\* server.go:266, cache.New(2*time.Minute, 3*time.Minute): the default
\* expiration of an lruCache item and the interval of the cleanup that
\* deletes expired items, in minutes
DefaultExpiration == 2
CleanupInterval == 3

\* ----------------------------------------------------------------- errors

NoErr == "nil"
ErrNodeNotFound == "node not found"
ErrBadGateway == "bad gateway"
ErrLikelyDown == "likely down error"
\* redigo's redis.ErrNil: redis.String on the nil reply of GET for a missing key
ErrNil == "redigo: nil returned"
\* fmt.Errorf("failed to query node %w", err) of getNodeTwinID
ErrQuery == "failed to query node"
\* errors.Wrapf(err, "error fetching ...") of fetchNodeData
ErrProbe == "error fetching node"
\* the error of a redis command that failed (conn.Do returning an error)
ErrConn == "redis: connection failed"
\* json.Unmarshal failing in NodeInfo.Deserialize
ErrDeserialize == "failed to deserialize json data for node info struct"

\* errors.Is(err, target): every error of the model is a sentinel or a wrap
\* of one, named by the sentinel it wraps.
ErrorsIs(err, target) == err = target

\* --------------------------------------------------------------- NodeInfo

\* NodeInfo{} (the Go zero value)
NoInfo == [cru |-> 0]
NodeInfos == {[cru |-> c] : c \in Capacities}

\* NodeInfo.Serialize: json.Marshal
Serialize(info) == "{\"capacity\":{\"cru\":" \o ToString(info.cru) \o "}}"

\* NodeInfo.Deserialize: json.Unmarshal; a string that is no JSON object fails
Deserialize(data) ==
    IF \E i \in NodeInfos : Serialize(i) = data
    THEN [err |-> NoErr, info |-> CHOOSE i \in NodeInfos : Serialize(i) = data]
    ELSE [err |-> ErrDeserialize, info |-> NoInfo]

\* NodeStatus.Serialize
SerializeStatus(status) == "{\"status\":\"" \o status \o "\"}"

\* ------------------------------------------------------------ redis store

\* Every command of this model reaches redis and is carried out: GET fails
\* only for a key that does not exist, SET and DEL do not fail.

\* A key that does not exist.
NoKey == [val |-> "", ex |-> 0]

\* SET key val EX expiration
SetRedisKey(st, n, val, expiration) ==
    [st EXCEPT ![n] = [val |-> val, ex |-> expiration]]

\* GET key: redis.String of a nil reply is ("", redis.ErrNil)
GetRedisKey(st, n) ==
    IF st[n] = NoKey
    THEN [s |-> "", err |-> ErrNil]
    ELSE [s |-> st[n].val, err |-> NoErr]

\* DEL key
DeleteRedisKey(st, n) == [st EXCEPT ![n] = NoKey]

\* GET key when the command fails: GetRedisKey returns ("", err), whatever
\* the key holds
GetRedisKeyFailing(st, n) == [s |-> "", err |-> ErrConn]

\* ----------------------------------------------------------- identity cache

\* The twin id the Directory records for a node (node 1 has twin 7).
TwinOf(n) == n + 6

\* lruCache entries of one node: the twin id (0: not cached) with the whole
\* minutes gone by since it was Set, and whether node_<id>_hypervisor and
\* node_<id>_dmi are cached.
NoLru == [twin |-> 0, age |-> 0, hyp |-> FALSE, dmi |-> FALSE]

\* lruCache.Get(nodeID): an item is found until its expiration has passed,
\* also when the cleanup has not deleted it yet.
lruFound(e) == e.twin # 0 /\ e.age < DefaultExpiration

\* getNodeTwinID without the test for an empty answer of the Directory.
getNodeTwinIDNoEmptyTest(lru, dir, n, queryOk) ==
    IF lruFound(lru[n])
    THEN [twin |-> lru[n].twin, err |-> NoErr, lru |-> lru, io |-> {}]
    ELSE IF ~queryOk
    THEN [twin |-> 0, err |-> ErrQuery, lru |-> lru, io |-> {"directory"}]
    ELSE [twin |-> TwinOf(n), err |-> NoErr,
          lru |-> [lru EXCEPT ![n].twin = TwinOf(n), ![n].age = 0],
          io |-> {"directory"}]

\* getNodeTwinID: lruCache first, the Directory on a miss.
getNodeTwinID(lru, dir, n, queryOk) ==
    IF lruFound(lru[n])
    THEN [twin |-> lru[n].twin, err |-> NoErr, lru |-> lru, io |-> {}]
    ELSE IF ~queryOk
    THEN [twin |-> 0, err |-> ErrQuery, lru |-> lru, io |-> {"directory"}]
    ELSE IF n \notin dir
    THEN [twin |-> 0, err |-> ErrNodeNotFound, lru |-> lru, io |-> {"directory"}]
    ELSE [twin |-> TwinOf(n), err |-> NoErr,
          lru |-> [lru EXCEPT ![n].twin = TwinOf(n), ![n].age = 0],
          io |-> {"directory"}]

\* Stages of the node probe that may fail in one fetch.
ProbeStages == {"none", "counters", "version", "hypervisor", "dmi"}

\* getNodeHypervisor asking the node every time.
getNodeHypervisorNoCache(lru, n, failing) ==
    IF failing = "hypervisor"
    THEN [err |-> ErrProbe, lru |-> lru, io |-> {"probe_hypervisor"}]
    ELSE [err |-> NoErr, lru |-> [lru EXCEPT ![n].hyp = TRUE],
          io |-> {"probe_hypervisor"}]

\* getNodeHypervisor: the cached value, or SystemHypervisor over rmb
getNodeHypervisor(lru, n, failing) ==
    IF lru[n].hyp
    THEN [err |-> NoErr, lru |-> lru, io |-> {}]
    ELSE IF failing = "hypervisor"
    THEN [err |-> ErrProbe, lru |-> lru, io |-> {"probe_hypervisor"}]
    ELSE [err |-> NoErr, lru |-> [lru EXCEPT ![n].hyp = TRUE],
          io |-> {"probe_hypervisor"}]

\* getNodeDMI: the cached value, or SystemDMI over rmb
getNodeDMI(lru, n, failing) ==
    IF lru[n].dmi
    THEN [err |-> NoErr, lru |-> lru, io |-> {}]
    ELSE IF failing = "dmi"
    THEN [err |-> ErrProbe, lru |-> lru, io |-> {"probe_dmi"}]
    ELSE [err |-> NoErr, lru |-> [lru EXCEPT ![n].dmi = TRUE],
          io |-> {"probe_dmi"}]

\* fetchNodeData: twin id, counters, version, hypervisor, dmi, in that order.
\* queryOk: the Directory answers; failing: the probe stage that fails;
\* c: the capacity the node reports.
fetchNodeData(lru, dir, n, queryOk, failing, c) ==
    LET t == getNodeTwinID(lru, dir, n, queryOk) IN
    IF t.err # NoErr
    THEN [info |-> NoInfo, err |-> t.err, lru |-> t.lru, io |-> t.io]
    ELSE IF failing \in {"counters", "version"}
    THEN [info |-> NoInfo, err |-> ErrProbe, lru |-> t.lru,
          io |-> t.io \cup {"probe"}]
    ELSE LET h == getNodeHypervisor(t.lru, n, failing) IN
    IF h.err # NoErr
    THEN [info |-> NoInfo, err |-> ErrProbe, lru |-> h.lru,
          io |-> t.io \cup {"probe"} \cup h.io]
    ELSE LET d == getNodeDMI(h.lru, n, failing) IN
    IF d.err # NoErr
    THEN [info |-> NoInfo, err |-> ErrProbe, lru |-> d.lru,
          io |-> t.io \cup {"probe"} \cup h.io \cup d.io]
    ELSE [info |-> [cru |-> c], err |-> NoErr, lru |-> d.lru,
          io |-> t.io \cup {"probe"} \cup h.io \cup d.io]

\* ------------------------------------------------------------- getNodeData

\* checkLikelyDown deleting the key of a node whose probe failed.
checkLikelyDownDeleting(st, n, data) ==
    IF Deserialize(data).err # NoErr
    THEN [store |-> st, ret |-> "", err |-> Deserialize(data).err, io |-> {}]
    ELSE [store |-> DeleteRedisKey(st, n),
          ret |-> "", err |-> ErrLikelyDown, io |-> {"redis_del"}]

\* checkLikelyDown leaving the stored snapshot in place.
checkLikelyDownKeeping(st, n, data) ==
    IF Deserialize(data).err # NoErr
    THEN [store |-> st, ret |-> "", err |-> Deserialize(data).err, io |-> {}]
    ELSE [store |-> st, ret |-> "", err |-> ErrLikelyDown, io |-> {}]

\* checkLikelyDown adding the marker to the stored snapshot.
checkLikelyDownAppending(st, n, data) ==
    IF Deserialize(data).err # NoErr
    THEN [store |-> st, ret |-> "", err |-> Deserialize(data).err, io |-> {}]
    ELSE [store |-> SetRedisKey(st, n, data \o "likely down", LikelyDownTTL),
          ret |-> "", err |-> ErrLikelyDown, io |-> {"redis_set"}]

\* checkLikelyDown: the previous value must deserialize; then the marker is
\* written for 10 minutes and ErrLikelyDown returned.
checkLikelyDown(st, n, data) ==
    IF Deserialize(data).err # NoErr
    THEN [store |-> st, ret |-> "", err |-> Deserialize(data).err, io |-> {}]
    ELSE [store |-> SetRedisKey(st, n, "likely down", LikelyDownTTL),
          ret |-> "", err |-> ErrLikelyDown, io |-> {"redis_set"}]

\* The cache test with the force flag inverted.
getNodeDataCachedForced(value, force) == value # "" /\ force

\* getNodeData, lines 293-296: a stored value is returned unless forced.
getNodeDataCached(value, force) == value # "" /\ ~force

\* getNodeData keeping the key of a node the Directory does not know.
getNodeDataStoreKeepsNotFound(st, n, value, fetchErr, info) ==
    IF ErrorsIs(fetchErr, ErrNodeNotFound)
    THEN [store |-> st, ret |-> "", err |-> ErrNodeNotFound, io |-> {}]
    ELSE IF fetchErr # NoErr /\ value # ""
    THEN checkLikelyDown(st, n, value)
    ELSE IF fetchErr # NoErr
    THEN [store |-> DeleteRedisKey(st, n), ret |-> "", err |-> ErrBadGateway,
          io |-> {"redis_del"}]
    ELSE [store |-> SetRedisKey(st, n, Serialize(info), SnapshotTTL),
          ret |-> Serialize(info), err |-> NoErr, io |-> {"redis_set"}]

\* getNodeData writing the snapshot with the marker's expiry.
getNodeDataStoreShortTTL(st, n, value, fetchErr, info) ==
    IF ErrorsIs(fetchErr, ErrNodeNotFound)
    THEN [store |-> DeleteRedisKey(st, n), ret |-> "", err |-> ErrNodeNotFound,
          io |-> {"redis_del"}]
    ELSE IF fetchErr # NoErr /\ value # ""
    THEN checkLikelyDown(st, n, value)
    ELSE IF fetchErr # NoErr
    THEN [store |-> DeleteRedisKey(st, n), ret |-> "", err |-> ErrBadGateway,
          io |-> {"redis_del"}]
    ELSE [store |-> SetRedisKey(st, n, Serialize(info), LikelyDownTTL),
          ret |-> Serialize(info), err |-> NoErr, io |-> {"redis_set"}]

\* getNodeData marking a node likely down on any failed fetch, also when no
\* value was stored for it.
getNodeDataStoreAlwaysMarks(st, n, value, fetchErr, info) ==
    IF ErrorsIs(fetchErr, ErrNodeNotFound)
    THEN [store |-> DeleteRedisKey(st, n), ret |-> "", err |-> ErrNodeNotFound,
          io |-> {"redis_del"}]
    ELSE IF fetchErr # NoErr
    THEN [store |-> SetRedisKey(st, n, "likely down", LikelyDownTTL),
          ret |-> "", err |-> ErrLikelyDown, io |-> {"redis_set"}]
    ELSE [store |-> SetRedisKey(st, n, Serialize(info), SnapshotTTL),
          ret |-> Serialize(info), err |-> NoErr, io |-> {"redis_set"}]

\* getNodeData returning a fetched snapshot without writing it to the key.
getNodeDataStoreNoWrite(st, n, value, fetchErr, info) ==
    IF ErrorsIs(fetchErr, ErrNodeNotFound)
    THEN [store |-> DeleteRedisKey(st, n), ret |-> "", err |-> ErrNodeNotFound,
          io |-> {"redis_del"}]
    ELSE IF fetchErr # NoErr /\ value # ""
    THEN checkLikelyDown(st, n, value)
    ELSE IF fetchErr # NoErr
    THEN [store |-> DeleteRedisKey(st, n), ret |-> "", err |-> ErrBadGateway,
          io |-> {"redis_del"}]
    ELSE [store |-> st, ret |-> Serialize(info), err |-> NoErr, io |-> {}]

\* getNodeData, lines 298-328: what is done with the outcome of fetchNodeData.
getNodeDataStore(st, n, value, fetchErr, info) ==
    IF ErrorsIs(fetchErr, ErrNodeNotFound)
    THEN [store |-> DeleteRedisKey(st, n), ret |-> "", err |-> ErrNodeNotFound,
          io |-> {"redis_del"}]
    ELSE IF fetchErr # NoErr /\ value # ""
    THEN checkLikelyDown(st, n, value)
    ELSE IF fetchErr # NoErr
    THEN [store |-> DeleteRedisKey(st, n), ret |-> "", err |-> ErrBadGateway,
          io |-> {"redis_del"}]
    ELSE [store |-> SetRedisKey(st, n, Serialize(info), SnapshotTTL),
          ret |-> Serialize(info), err |-> NoErr, io |-> {"redis_set"}]

\* checkLikelyDown when its SET command fails: the error is logged
\* (lines 282-284) and ErrLikelyDown returned all the same.
checkLikelyDownFailing(st, n, data) ==
    IF Deserialize(data).err # NoErr
    THEN [store |-> st, ret |-> "", err |-> Deserialize(data).err, io |-> {}]
    ELSE [store |-> st, ret |-> "", err |-> ErrLikelyDown,
          io |-> {"redis_set_failed"}]

\* getNodeData returning the error of a SET that failed.
getNodeDataStoreFailingReturnsErr(st, n, value, fetchErr, info) ==
    IF ErrorsIs(fetchErr, ErrNodeNotFound)
    THEN [store |-> st, ret |-> "", err |-> ErrNodeNotFound,
          io |-> {"redis_del_failed"}]
    ELSE IF fetchErr # NoErr /\ value # ""
    THEN checkLikelyDownFailing(st, n, value)
    ELSE IF fetchErr # NoErr
    THEN [store |-> st, ret |-> "", err |-> ErrBadGateway,
          io |-> {"redis_del_failed"}]
    ELSE [store |-> st, ret |-> "", err |-> ErrConn, io |-> {"redis_set_failed"}]

\* getNodeData, lines 298-328, when the DEL or SET command it issues fails:
\* the error is logged (lines 302-304, 311-313, 324-326), the key is left as
\* it is and the call returns what it would have returned.
getNodeDataStoreFailing(st, n, value, fetchErr, info) ==
    IF ErrorsIs(fetchErr, ErrNodeNotFound)
    THEN [store |-> st, ret |-> "", err |-> ErrNodeNotFound,
          io |-> {"redis_del_failed"}]
    ELSE IF fetchErr # NoErr /\ value # ""
    THEN checkLikelyDownFailing(st, n, value)
    ELSE IF fetchErr # NoErr
    THEN [store |-> st, ret |-> "", err |-> ErrBadGateway,
          io |-> {"redis_del_failed"}]
    ELSE [store |-> st, ret |-> Serialize(info), err |-> NoErr,
          io |-> {"redis_set_failed"}]

\* ------------------------------------------------------------ HTTP handlers

\* getNode, lines 172-190: the response for the result of getNodeData.
getNodeResponse(nodeData, err) ==
    IF ErrorsIs(err, ErrNodeNotFound) THEN [code |-> 404, body |-> "Not Found"]
    ELSE IF ErrorsIs(err, ErrBadGateway) THEN [code |-> 502, body |-> "Bad Gateway"]
    ELSE IF err # NoErr THEN [code |-> 500, body |-> "Internal Server Error"]
    ELSE [code |-> 200, body |-> nodeData]

\* getNodeStatus, lines 199-222: the responses written for a GET reply.
\* code 0 and an empty body: the handler wrote nothing.
getNodeStatusResponse(isStored, err) ==
    IF err # NoErr THEN [code |-> 200, body |-> SerializeStatus("down")]
    ELSE IF isStored = "likely down"
    THEN [code |-> 200, body |-> SerializeStatus("likely down")]
    ELSE IF isStored # ""
    THEN [code |-> 200, body |-> SerializeStatus("up")]
    ELSE [code |-> 0, body |-> ""]

\* getNodeStatus with the test for the marker left out of the last condition.
getNodeStatusWritesTwice(isStored, err) ==
    IF err # NoErr THEN <<SerializeStatus("down")>>
    ELSE (IF isStored = "likely down"
          THEN <<SerializeStatus("likely down")>> ELSE <<>>)
         \o (IF isStored # "" THEN <<SerializeStatus("up")>> ELSE <<>>)

\* getNodeStatus, lines 199-222: the bodies the handler writes, in order.
\* The first branch returns; the second does not and falls into the third.
getNodeStatusWrites(isStored, err) ==
    IF err # NoErr THEN <<SerializeStatus("down")>>
    ELSE (IF isStored = "likely down"
          THEN <<SerializeStatus("likely down")>> ELSE <<>>)
         \o (IF isStored # "" /\ isStored # "likely down"
             THEN <<SerializeStatus("up")>> ELSE <<>>)

\* listNodes without the test for the marker: any stored string means up.
listNodesStatusMarkerUp(isStored, err) ==
    IF isStored # "" THEN "up"
    ELSE IF err # NoErr THEN "down"
    ELSE ""

\* listNodes, lines 118-127: the status given to a node of the page; the
\* Directory query supplies no status, so it starts as the empty string.
listNodesStatus(isStored, err) ==
    IF isStored # "" /\ isStored # "likely down" THEN "up"
    ELSE IF isStored = "likely down" THEN "likely down"
    ELSE IF err # NoErr THEN "down"
    ELSE ""

\* getNodeCapacity's decoding of what getNodeData returned: the capacity of
\* the deserialized NodeInfo.
getNodeCapacity(ret, err) ==
    IF err # NoErr THEN [cru |-> 0, err |-> err]
    ELSE [cru |-> Deserialize(ret).info.cru, err |-> Deserialize(ret).err]

\* One element of listNodes' nodeList.
Entry(n, status, cru) == [node |-> n, status |-> status, cru |-> cru]

\* The ids of a set of nodes in ascending order.
RECURSIVE SortedSeq(_)
SortedSeq(S) ==
    IF S = {} THEN <<>>
    ELSE LET m == CHOOSE x \in S : \A y \in S : x <= y
         IN <<m>> \o SortedSeq(S \ {m})

\* ------------------------------------------------------------------ state

VARIABLES
    directory,  \* the node ids the Directory has a record of
    store,      \* redis: node id -> the value of GRID3NODE:<id> and its EX
    lruCache,   \* process-local go-cache: node id -> twin id, hypervisor, dmi
    pc,         \* where each caller of getNodeData stands
    call,       \* the locals of each caller's getNodeData invocation
    listing,    \* listNodes: the nodes of the page still to do, and nodeList
    last,       \* the step taken last and what it returned or answered
    cycle       \* cacheNodesInfo runs: position, loop index, semaphore

cacheVars == <<directory, store, lruCache, pc, call, listing, last>>
vars == <<directory, store, lruCache, pc, call, listing, last, cycle>>

\* The two triggers of cacheNodesInfo in Setup: the goroutine started at once
\* (server.go:287) and the cron job (server.go:289).
Cycles == {"startup", "cron"}

\* pc: where the run stands; n: len(nodeIds.Data.NodeResult); i: the workers
\* started so far; sem: len(channelLimit); closed: close(channelLimit) has run.
NoCycle == [pc |-> "idle", n |-> 0, i |-> 0, sem |-> 0, closed |-> FALSE]

\* v is a value that deserializes into a NodeInfo.
IsSnapshot(v) == Deserialize(v).err = NoErr

\* The callers of getNodeData: the getNode handler and listNodes (through
\* getNodeCapacity), both with force = false, and a worker goroutine of
\* cacheNodesInfo with force = true.
Procs == {"getNode", "listNodes", "refresher"}

\* Worker goroutines of cacheNodesInfo that may be at work on the same node at
\* once: one of the run started by Setup at once (server.go:287), one of a
\* cron run (server.go:289).
Workers == {"refresher", "cronWorker"}

Callers == Procs \cup Workers

Force(p) == p \in Workers

NoCall == [node |-> 0, value |-> "", err |-> NoErr, info |-> NoInfo]

NoListing == [page |-> <<>>, nodeList |-> <<>>]

Label(proc, step, n, code, body, err, io) ==
    [proc |-> proc, step |-> step, node |-> n, code |-> code, body |-> body,
     err |-> err, io |-> io, value |-> "", list |-> <<>>]

Init ==
    /\ directory = Nodes
    /\ store = [n \in Nodes |-> NoKey]
    /\ lruCache = [n \in Nodes |-> NoLru]
    /\ pc = [p \in Callers |-> "idle"]
    /\ call = [p \in Callers |-> NoCall]
    /\ listing = NoListing
    /\ cycle = [c \in Cycles |-> NoCycle]
    /\ last = Label("init", "init", 0, 0, "", NoErr, {})

\* listNodes, lines 134-143, with (ret, err) of getNodeData: a node whose
\* capacity lookup failed is skipped, any other is appended with its capacity.
listNodesAppend(l, n, ret, err) ==
    IF getNodeCapacity(ret, err).err # NoErr
    THEN [page |-> Tail(l.page), nodeList |-> l.nodeList]
    ELSE [page |-> Tail(l.page),
          nodeList |-> Append(l.nodeList, Entry(n, "up", getNodeCapacity(ret, err).cru))]

\* What a caller does with (ret, err) of getNodeData: getNode answers the
\* request, listNodes goes on with its page, the worker only logs.
\* value: what the call's GET had read; it is kept in the label of the step.
Return(p, n, value, ret, err, io) ==
    /\ pc' = [pc EXCEPT ![p] = IF p = "listNodes" THEN "loop" ELSE "idle"]
    /\ call' = [call EXCEPT ![p] = NoCall]
    /\ listing' = IF p = "listNodes" THEN listNodesAppend(listing, n, ret, err)
                  ELSE listing
    /\ last' = IF p = "getNode"
               THEN [Label(p, "return", n, getNodeResponse(ret, err).code,
                           getNodeResponse(ret, err).body, err, io)
                       EXCEPT !.value = value]
               ELSE [Label(p, "return", n, 0, ret, err, io) EXCEPT !.value = value]

\* getNodeData line 291-296: GET the key; return the value, or go on to fetch.
GetNodeDataRead(p, n) ==
    /\ \/ p # "listNodes" /\ pc[p] = "idle"
       \/ p = "listNodes" /\ pc[p] = "capacity" /\ n = Head(listing.page)
    /\ LET value == GetRedisKey(store, n).s IN
       IF getNodeDataCached(value, Force(p))
       THEN /\ Return(p, n, value, value, NoErr, {"redis_get"})
            /\ UNCHANGED <<directory, store, lruCache, cycle>>
       ELSE /\ pc' = [pc EXCEPT ![p] = "fetch"]
            /\ call' = [call EXCEPT ![p] = [NoCall EXCEPT !.node = n, !.value = value]]
            /\ last' = Label(p, "read", n, 0, "", NoErr, {"redis_get"})
            /\ UNCHANGED <<directory, store, lruCache, listing, cycle>>

\* getNodeData line 298: fetchNodeData
GetNodeDataFetch(p) ==
    /\ pc[p] = "fetch"
    /\ \E queryOk \in BOOLEAN, failing \in ProbeStages, c \in Capacities :
         LET r == fetchNodeData(lruCache, directory, call[p].node, queryOk, failing, c) IN
         /\ lruCache' = r.lru
         /\ call' = [call EXCEPT ![p].err = r.err, ![p].info = r.info]
         /\ last' = Label(p, "fetch", call[p].node, 0, "", r.err, r.io)
    /\ pc' = [pc EXCEPT ![p] = "store"]
    /\ UNCHANGED <<directory, store, listing, cycle>>

\* getNodeData lines 299-328: delete, mark or write the key, and return
GetNodeDataStore(p) ==
    /\ pc[p] = "store"
    /\ LET w == getNodeDataStore(store, call[p].node, call[p].value,
                                 call[p].err, call[p].info) IN
         /\ store' = w.store
         /\ Return(p, call[p].node, call[p].value, w.ret, w.err, w.io)
    /\ UNCHANGED <<directory, lruCache, cycle>>

\* getNodeData line 291-296 when the GET command fails: the error is dropped
\* (value, _ :=) and value is the empty string
GetNodeDataReadFailing(p, n) ==
    /\ \/ p # "listNodes" /\ pc[p] = "idle"
       \/ p = "listNodes" /\ pc[p] = "capacity" /\ n = Head(listing.page)
    /\ LET value == GetRedisKeyFailing(store, n).s IN
       IF getNodeDataCached(value, Force(p))
       THEN /\ Return(p, n, value, value, NoErr, {"redis_get_failed"})
            /\ UNCHANGED <<directory, store, lruCache, cycle>>
       ELSE /\ pc' = [pc EXCEPT ![p] = "fetch"]
            /\ call' = [call EXCEPT ![p] = [NoCall EXCEPT !.node = n, !.value = value]]
            /\ last' = Label(p, "read", n, 0, "", NoErr, {"redis_get_failed"})
            /\ UNCHANGED <<directory, store, lruCache, listing, cycle>>

\* getNodeData lines 299-328 when the command it issues to redis fails
GetNodeDataStoreFailing(p) ==
    /\ pc[p] = "store"
    /\ LET w == getNodeDataStoreFailing(store, call[p].node, call[p].value,
                                        call[p].err, call[p].info) IN
         /\ w.io # {}
         /\ store' = w.store
         /\ Return(p, call[p].node, call[p].value, w.ret, w.err, w.io)
    /\ UNCHANGED <<directory, lruCache, cycle>>

\* What getNodeStatus answers for node n when the store is st.
StatusOf(st, n) ==
    getNodeStatusResponse(GetRedisKey(st, n).s, GetRedisKey(st, n).err)

\* getNodeStatus resolving the node's twin id as getNodeData would.
GetNodeStatusResolving(n) ==
    /\ last' = Label("getNodeStatus", "return", n, StatusOf(store, n).code,
                     StatusOf(store, n).body, NoErr,
                     {"redis_get"} \cup getNodeTwinID(lruCache, directory, n, TRUE).io)
    /\ lruCache' = getNodeTwinID(lruCache, directory, n, TRUE).lru
    /\ UNCHANGED <<directory, store, pc, call, listing, cycle>>

\* getNodeStatus: one GET, one response
GetNodeStatus(n) ==
    /\ last' = Label("getNodeStatus", "return", n, StatusOf(store, n).code,
                     StatusOf(store, n).body, NoErr, {"redis_get"})
    /\ UNCHANGED <<directory, store, lruCache, pc, call, listing, cycle>>

\* getNodeStatus when the GET command fails
GetNodeStatusFailing(n) ==
    /\ last' = Label("getNodeStatus", "return", n,
                     getNodeStatusResponse(GetRedisKeyFailing(store, n).s,
                                           GetRedisKeyFailing(store, n).err).code,
                     getNodeStatusResponse(GetRedisKeyFailing(store, n).s,
                                           GetRedisKeyFailing(store, n).err).body,
                     NoErr, {"redis_get_failed"})
    /\ UNCHANGED <<directory, store, lruCache, pc, call, listing, cycle>>

\* listNodes, lines 106-113: the page of nodes from the Directory
ListNodesQuery ==
    /\ pc["listNodes"] = "idle"
    /\ \E queryOk \in BOOLEAN :
         IF queryOk
         THEN /\ pc' = [pc EXCEPT !["listNodes"] = "loop"]
              /\ listing' = [page |-> SortedSeq(directory), nodeList |-> <<>>]
              /\ last' = Label("listNodes", "query", 0, 0, "", NoErr, {"directory"})
         ELSE /\ pc' = pc
              /\ listing' = listing
              /\ last' = Label("listNodes", "return", 0, 500, "Internal Server Error",
                               ErrQuery, {"directory"})
    /\ UNCHANGED <<directory, store, lruCache, call, cycle>>

\* listNodes, lines 115-155: the status of the next node of the page, or the
\* response once the page is done
ListNodesLoop ==
    /\ pc["listNodes"] = "loop"
    /\ IF listing.page = <<>>
       THEN /\ pc' = [pc EXCEPT !["listNodes"] = "idle"]
            /\ listing' = NoListing
            /\ last' = [Label("listNodes", "return", 0, 200, "", NoErr, {})
                           EXCEPT !.list = listing.nodeList]
       ELSE LET n == Head(listing.page)
                r == GetRedisKey(store, n)
                status == listNodesStatus(r.s, r.err)
            IN /\ last' = Label("listNodes", "status", n, 0, status, NoErr, {"redis_get"})
               /\ IF status = "up"
                  THEN /\ pc' = [pc EXCEPT !["listNodes"] = "capacity"]
                       /\ listing' = listing
                  ELSE /\ pc' = pc
                       /\ listing' = [page |-> Tail(listing.page),
                                      nodeList |-> Append(listing.nodeList,
                                                          Entry(n, status, 0))]
    /\ UNCHANGED <<directory, store, lruCache, call, cycle>>

\* listNodes, lines 118-121, when the GET command fails for the next node
ListNodesLoopFailing ==
    /\ pc["listNodes"] = "loop"
    /\ listing.page # <<>>
    /\ LET n == Head(listing.page)
           r == GetRedisKeyFailing(store, n)
           status == listNodesStatus(r.s, r.err)
       IN /\ last' = Label("listNodes", "status", n, 0, status, NoErr,
                           {"redis_get_failed"})
          /\ IF status = "up"
             THEN /\ pc' = [pc EXCEPT !["listNodes"] = "capacity"]
                  /\ listing' = listing
             ELSE /\ pc' = pc
                  /\ listing' = [page |-> Tail(listing.page),
                                 nodeList |-> Append(listing.nodeList,
                                                     Entry(n, status, 0))]
    /\ UNCHANGED <<directory, store, lruCache, call, cycle>>

\* -------------------------------------------------------------- environment

EnvLabel(step, n) == Label("env", step, n, 0, "", NoErr, {})

\* redis drops a key whose EX has run out
KeyExpire(n) ==
    /\ store[n] # NoKey
    /\ store' = [store EXCEPT ![n] = NoKey]
    /\ last' = EnvLabel("key_expire", n)
    /\ UNCHANGED <<directory, lruCache, pc, call, listing, cycle>>

\* go-cache drops a twin id after its default expiration (server.go:266);
\* hypervisor and dmi are stored with cache.NoExpiration
TwinExpire(n) ==
    /\ lruCache[n].twin # 0
    /\ lruCache' = [lruCache EXCEPT ![n].twin = 0, ![n].age = 0]
    /\ last' = EnvLabel("twin_expire", n)
    /\ UNCHANGED <<directory, store, pc, call, listing, cycle>>

\* A minute goes by for the twin id of node n; an expired item is deleted by
\* the cleanup that follows its expiration, CleanupInterval later at most.
TwinTick(n) ==
    /\ lruCache[n].twin # 0
    /\ lruCache[n].age < DefaultExpiration + CleanupInterval
    /\ lruCache' = [lruCache EXCEPT ![n].age = @ + 1]
    /\ last' = EnvLabel("twin_tick", n)
    /\ UNCHANGED <<directory, store, pc, call, listing, cycle>>

\* the cleanup of go-cache deletes the twin id, which has expired
TwinCleanup(n) ==
    /\ lruCache[n].twin # 0
    /\ ~lruFound(lruCache[n])
    /\ lruCache' = [lruCache EXCEPT ![n].twin = 0, ![n].age = 0]
    /\ last' = EnvLabel("twin_cleanup", n)
    /\ UNCHANGED <<directory, store, pc, call, listing, cycle>>

\* fetchNodeData called for node n, by any caller
FetchNodeData(n) ==
    /\ \E queryOk \in BOOLEAN, failing \in ProbeStages, c \in Capacities :
         LET r == fetchNodeData(lruCache, directory, n, queryOk, failing, c) IN
         /\ lruCache' = r.lru
         /\ last' = Label("fetch", "fetch", n, 0,
                          IF r.err = NoErr THEN Serialize(r.info) ELSE "",
                          r.err, r.io)
    /\ UNCHANGED <<directory, store, pc, call, listing, cycle>>

\* the node is removed from, or registered again in, the Directory
DirectoryRemove(n) ==
    /\ n \in directory
    /\ directory' = directory \ {n}
    /\ last' = EnvLabel("dir_remove", n)
    /\ UNCHANGED <<store, lruCache, pc, call, listing, cycle>>

DirectoryAdd(n) ==
    /\ n \notin directory
    /\ directory' = directory \cup {n}
    /\ last' = EnvLabel("dir_add", n)
    /\ UNCHANGED <<store, lruCache, pc, call, listing, cycle>>

\* ------------------------------------------------------------ cacheNodesInfo

\* The fleet model follows the semaphore of each run: a worker goroutine is
\* one token of channelLimit from the send that precedes its start to the
\* receive that ends it; what its getNodeData call does to the store is the
\* "refresher" caller of the cache model above.

\* cacheNodesInfo lines 350-356: getAllNodesIDs, then make(chan int, 30).
\* The cron job runs again once the workers of its previous run are done.
CycleStart(c) ==
    /\ \/ cycle[c].pc = "idle"
       \/ c = "cron" /\ cycle[c].pc = "returned" /\ cycle[c].sem = 0
    /\ \E ok \in BOOLEAN, k \in FleetSizes :
         cycle' = [cycle EXCEPT ![c] =
             IF ok THEN [pc |-> "loop", n |-> k, i |-> 0, sem |-> 0, closed |-> FALSE]
             ELSE [NoCycle EXCEPT !.pc = "returned"]]
    /\ UNCHANGED cacheVars

\* lines 358-360: channelLimit <- 1 blocks while the buffer is full; then
\* the worker goroutine is started
\* a send that goes through with the buffer full
canSendFull(sem) == sem <= maxGoRoutnes

canSend(sem) == sem < maxGoRoutnes

CycleDispatch(c) ==
    /\ cycle[c].pc = "loop"
    /\ cycle[c].i < cycle[c].n
    /\ canSend(cycle[c].sem)
    /\ cycle' = [cycle EXCEPT ![c].i = @ + 1, ![c].sem = @ + 1]
    /\ UNCHANGED cacheVars

\* lines 357, 371: the loop is over; the deferred close(channelLimit) runs
CycleReturn(c) ==
    /\ cycle[c].pc = "loop"
    /\ cycle[c].i = cycle[c].n
    /\ cycle' = [cycle EXCEPT ![c].pc = "returned", ![c].closed = TRUE]
    /\ UNCHANGED cacheVars

\* What a worker's getNodeData(nid, true) may return.
WorkerOutcomes == {NoErr, ErrNodeNotFound, ErrBadGateway, ErrLikelyDown}

\* A worker whose fetch failed ending the run it belongs to.
workerDoneAbortOnError(cy, err) ==
    IF err # NoErr
    THEN [cy EXCEPT !.sem = @ - 1, !.pc = "returned", !.closed = TRUE]
    ELSE [cy EXCEPT !.sem = @ - 1]

\* lines 362-368: the worker logs err or the success and receives from
\* channelLimit; nothing of the run depends on err.
workerDone(cy, err) == [cy EXCEPT !.sem = @ - 1]

\* A worker that gives its slot back by a send, which a closed channel
\* refuses.
WorkerDoneBySend(c) ==
    /\ cycle[c].sem > 0
    /\ ~cycle[c].closed
    /\ \E err \in WorkerOutcomes :
         cycle' = [cycle EXCEPT ![c] = workerDone(@, err)]
    /\ UNCHANGED cacheVars

\* lines 361-368: a worker's getNodeData(nid, true) has returned, the result
\* is logged and <-channelLimit takes one token back (a receive from a
\* buffered channel that holds a value does not block, closed or not)
WorkerDone(c) ==
    /\ cycle[c].sem > 0
    /\ \E err \in WorkerOutcomes :
         cycle' = [cycle EXCEPT ![c] = workerDone(@, err)]
    /\ UNCHANGED cacheVars

\* The per-node fetches the fleet refresher has in flight.
InFlight == cycle["startup"].sem + cycle["cron"].sem

NextFleet ==
    \/ \E c \in Cycles : CycleStart(c)
    \/ \E c \in Cycles : CycleDispatch(c)
    \/ \E c \in Cycles : CycleReturn(c)
    \/ \E c \in Cycles : WorkerDone(c)

SpecFleet == Init /\ [][NextFleet]_vars

\* The goroutine of a run that can take a step takes it (the Go scheduler),
\* and the getNodeData call of every worker returns with one of
\* WorkerOutcomes.
FairSpecFleet ==
    /\ SpecFleet
    /\ \A c \in Cycles : WF_vars(CycleDispatch(c))
    /\ \A c \in Cycles : WF_vars(CycleReturn(c))
    /\ \A c \in Cycles : WF_vars(WorkerDone(c))

\* The same without the assumption on the workers: the goroutine of a run
\* that can take a step takes it, but nothing makes a worker's getNodeData
\* return. fetchNodeData hands context.Background(), a context without a
\* deadline, to every call of the node client (helpers.go:233-259); only the
\* Directory query has a timeout (helpers.go:77).
FairSpecFleetNoDeadline ==
    /\ SpecFleet
    /\ \A c \in Cycles : WF_vars(CycleDispatch(c))
    /\ \A c \in Cycles : WF_vars(CycleReturn(c))

Next ==
    \/ \E p \in Procs, n \in Nodes : GetNodeDataRead(p, n)
    \/ \E p \in Procs : GetNodeDataFetch(p)
    \/ \E p \in Procs : GetNodeDataStore(p)
    \/ \E n \in Nodes : GetNodeStatus(n)
    \/ ListNodesQuery
    \/ ListNodesLoop
    \/ \E n \in Nodes : KeyExpire(n)
    \/ \E n \in Nodes : TwinExpire(n)
    \/ \E n \in Nodes : DirectoryRemove(n)
    \/ \E n \in Nodes : DirectoryAdd(n)

Spec == Init /\ [][Next]_vars

\* The identity cache with the age of the twin id: in Spec a twin id may
\* expire at any moment (TwinExpire), here it expires by the clock.
NextTwin ==
    \/ \E n \in Nodes : FetchNodeData(n)
    \/ \E n \in Nodes : TwinTick(n)
    \/ \E n \in Nodes : TwinCleanup(n)
    \/ \E n \in Nodes : DirectoryRemove(n)
    \/ \E n \in Nodes : DirectoryAdd(n)

SpecTwin == Init /\ [][NextTwin]_vars

\* Two workers of overlapping cacheNodesInfo runs on the same node.
NextWorkers ==
    \/ \E p \in Workers, n \in Nodes : GetNodeDataRead(p, n)
    \/ \E p \in Workers : GetNodeDataFetch(p)
    \/ \E p \in Workers : GetNodeDataStore(p)
    \/ \E n \in Nodes : GetNodeStatus(n)
    \/ \E n \in Nodes : KeyExpire(n)

SpecWorkers == Init /\ [][NextWorkers]_vars

\* No other caller is inside getNodeData.
Serial(p) == \A q \in Callers \ {p} : pc[q] = "idle"

\* Calls of getNodeData one after the other, never two at once, with redis
\* commands that may fail: between the GET of a call and its last step no
\* other call writes the key.
NextSerial ==
    \/ \E p \in {"getNode", "refresher"}, n \in Nodes :
          Serial(p) /\ GetNodeDataRead(p, n)
    \/ \E p \in {"getNode", "refresher"}, n \in Nodes :
          Serial(p) /\ GetNodeDataReadFailing(p, n)
    \/ \E p \in {"getNode", "refresher"} : GetNodeDataFetch(p)
    \/ \E p \in {"getNode", "refresher"} : GetNodeDataStore(p)
    \/ \E p \in {"getNode", "refresher"} : GetNodeDataStoreFailing(p)
    \/ \E n \in Nodes : GetNodeStatus(n)
    \/ \E n \in Nodes : KeyExpire(n)

SpecSerial == Init /\ [][NextSerial]_vars

\* The cache model with redis commands that may fail.
NextFaults ==
    \/ Next
    \/ \E n \in Nodes : GetNodeStatusFailing(n)
    \/ \E p \in Procs, n \in Nodes : GetNodeDataReadFailing(p, n)
    \/ \E p \in Procs : GetNodeDataStoreFailing(p)
    \/ ListNodesLoopFailing

SpecFaults == Init /\ [][NextFaults]_vars

\* ---------------------------------------------------------------- claims

Marker == "likely down"
Down == SerializeStatus("down")
LikelyDown == SerializeStatus("likely down")
Up == SerializeStatus("up")

\* The callers of getNodeData(nodeID, false).
Unforced == {p \in Procs : ~Force(p)}

\* The fetch of the call of p failed, and not with ErrNodeNotFound.
FetchFailed(p) == call[p].err \notin {NoErr, ErrNodeNotFound}

\* C1: whenever a node's key holds a snapshot, a getNodeData(nodeID, false)
\* call for it (from getNode or from listNodes) returns in its first step,
\* with exactly the stored value and no error (getNode answers 200 with it),
\* having done one GET and nothing else: no Directory query, no node probe,
\* no write to the store or to the identity cache.
C1_CachedValueReturnedWithoutProbe ==
    [][\A p \in Unforced, n \in Nodes :
        (IsSnapshot(store[n].val) /\ GetNodeDataRead(p, n)) =>
            /\ last'.step = "return"
            /\ last'.err = NoErr
            /\ last'.body = store[n].val
            /\ p = "getNode" => last'.code = 200
            /\ last'.io = {"redis_get"}
            /\ UNCHANGED <<directory, store, lruCache>>]_vars

C1_Witness ==
    /\ last.proc = "getNode" /\ last.step = "return"
    /\ last.code = 200 /\ IsSnapshot(last.body)
    /\ last.io = {"redis_get"}
    /\ store[last.node].val = last.body

\* C2: when the fetch of a getNodeData call fails with an error other than
\* ErrNodeNotFound and the call had read a snapshot from the node's key, then
\* in the state the call leaves behind getNodeStatus answers "likely down"
\* for that node, neither "down" nor "up".
C2_FailedProbeGivesLikelyDown ==
    [][\A p \in Procs :
        (pc[p] = "store" /\ IsSnapshot(call[p].value) /\ FetchFailed(p)
         /\ GetNodeDataStore(p)) =>
            StatusOf(store', call[p].node) = [code |-> 200, body |-> LikelyDown]]_vars

C2_Witness ==
    /\ last.proc = "refresher" /\ last.step = "return"
    /\ IsSnapshot(last.value) /\ last.err = ErrLikelyDown
    /\ StatusOf(store, last.node).body = LikelyDown

\* C3 as stated: when the fetch fails for a node whose snapshot the call had
\* read, the snapshot is kept: its capacity figures can still be read from
\* the node's key afterwards.
C3_SnapshotKeptAfterFailedProbe ==
    [][\A p \in Procs :
        (pc[p] = "store" /\ IsSnapshot(call[p].value) /\ FetchFailed(p)
         /\ GetNodeDataStore(p)) =>
            Deserialize(store'[call[p].node].val).info = Deserialize(call[p].value).info]_vars

\* C3 amended: when the fetch fails for a node whose snapshot the call had
\* read, the key is not deleted but overwritten by the marker "likely down"
\* with the 10-minute expiry, so the capacity figures are no longer in the
\* cache; and listNodes gives every node it reports "likely down" or "down"
\* no capacity figures, only a node it reports "up" carries them.
C3_MarkerReplacesSnapshot ==
    /\ [][\A p \in Procs :
          (pc[p] = "store" /\ IsSnapshot(call[p].value) /\ FetchFailed(p)
           /\ GetNodeDataStore(p)) =>
              /\ store'[call[p].node] = [val |-> Marker, ex |-> LikelyDownTTL]
              /\ ~IsSnapshot(store'[call[p].node].val)
              /\ listNodesStatus(GetRedisKey(store', call[p].node).s,
                                 GetRedisKey(store', call[p].node).err) = "likely down"]_vars
    /\ [](\A k \in 1..Len(listing.nodeList) :
            listing.nodeList[k].status # "up" => listing.nodeList[k].cru = 0)

C3_Witness ==
    /\ last.proc = "listNodes" /\ last.step = "return" /\ last.code = 200
    /\ \E k \in 1..Len(last.list) :
         last.list[k].status = "likely down" /\ last.list[k].cru = 0

\* C4 as stated: while a node's key holds the marker "likely down", getNode
\* does not answer the request with anything but 502; and whatever getNode
\* answers, it is 404 exactly for ErrNodeNotFound, 502 for ErrBadGateway and
\* ErrLikelyDown, and a 200 carries a serialized snapshot.
C4_LikelyDownAnswers502 ==
    [][/\ \A n \in Nodes :
            (store[n].val = Marker /\ GetNodeDataRead("getNode", n)) =>
                ~(last'.step = "return" /\ last'.code # 502)
       /\ (last'.proc = "getNode" /\ last'.step = "return") =>
            /\ last'.code = 404 <=> last'.err = ErrNodeNotFound
            /\ last'.err \in {ErrBadGateway, ErrLikelyDown} => last'.code = 502
            /\ last'.code = 200 => IsSnapshot(last'.body)]_vars

\* C5: when fetchNodeData reports ErrNodeNotFound, getNodeData deletes the
\* node's key whatever it holds, returns ErrNodeNotFound (getNode answers
\* 404), and getNodeStatus then answers "down".
C5_NotFoundClearsKey ==
    [][\A p \in Procs :
        (pc[p] = "store" /\ call[p].err = ErrNodeNotFound /\ GetNodeDataStore(p)) =>
            /\ store'[call[p].node] = NoKey
            /\ last'.err = ErrNodeNotFound
            /\ last'.body = (IF p = "getNode" THEN "Not Found" ELSE "")
            /\ p = "getNode" => last'.code = 404
            /\ StatusOf(store', call[p].node) = [code |-> 200, body |-> Down]]_vars

C5_Witness ==
    /\ last.proc = "refresher" /\ last.step = "return"
    /\ last.err = ErrNodeNotFound /\ last.value # ""
    /\ store[last.node] = NoKey

\* C6 as stated: the per-node fetches the fleet refresher has in flight,
\* over all its runs, never exceed the cap of 30.
C6_InFlightWithinCap == InFlight <= maxGoRoutnes

\* C7: when fetchNodeData succeeds, getNodeData writes the serialized
\* NodeInfo to the node's key with the 30-minute expiry, whatever the key
\* held, and returns that same string without error (getNode answers 200
\* with it); getNodeStatus then answers "up".
C7_SuccessWritesSnapshot ==
    [][\A p \in Procs :
        (pc[p] = "store" /\ call[p].err = NoErr /\ GetNodeDataStore(p)) =>
            /\ store'[call[p].node] =
                 [val |-> Serialize(call[p].info), ex |-> SnapshotTTL]
            /\ last'.err = NoErr
            /\ last'.body = Serialize(call[p].info)
            /\ p = "getNode" => last'.code = 200
            /\ StatusOf(store', call[p].node) = [code |-> 200, body |-> Up]]_vars

C7_Witness ==
    /\ last.proc = "refresher" /\ last.step = "return"
    /\ last.err = NoErr /\ last.value = Marker
    /\ IsSnapshot(last.body)
    /\ store[last.node] = [val |-> last.body, ex |-> SnapshotTTL]

\* C8: when the fetch fails with an error other than ErrNodeNotFound and the
\* call had read no value from the node's key, getNodeData leaves the key
\* absent, writes no marker and returns ErrBadGateway (getNode answers 502);
\* getNodeStatus then answers "down".
C8_FailureWithoutPriorValue ==
    [][\A p \in Procs :
        (pc[p] = "store" /\ call[p].value = "" /\ FetchFailed(p)
         /\ GetNodeDataStore(p)) =>
            /\ store'[call[p].node] = NoKey
            /\ last'.err = ErrBadGateway
            /\ p = "getNode" => last'.code = 502
            /\ StatusOf(store', call[p].node) = [code |-> 200, body |-> Down]]_vars

C8_Witness ==
    /\ last.proc = "getNode" /\ last.step = "return"
    /\ last.value = "" /\ last.code = 502 /\ last.err = ErrBadGateway
    /\ store[last.node] = NoKey

\* C9 as stated: for a node with no Directory record, the fetch of a getNode
\* request that found no cache entry ends with ErrNodeNotFound whenever the
\* Directory is not failing, whatever the identity cache holds.
C9_NoRecordIsNotFound ==
    [][\A n \in Nodes :
        (n \notin directory /\ pc["getNode"] = "fetch" /\ call["getNode"].node = n
         /\ GetNodeDataFetch("getNode")) =>
            last'.err \in {ErrNodeNotFound, ErrQuery}]_vars

\* C9 amended: for a node with no cache entry, getNodeStatus answers "down";
\* and the fetch of a getNode request for a node with no Directory record
\* whose twin id is not in the identity cache ends with ErrNodeNotFound
\* whenever the Directory answers, and getNode then answers 404.
C9_NoRecordNoTwinIsNotFound ==
    /\ [][\A n \in Nodes :
          (store[n] = NoKey /\ GetNodeStatus(n)) =>
              (last'.code = 200 /\ last'.body = Down)]_vars
    /\ [][\A n \in Nodes :
          (n \notin directory /\ lruCache[n].twin = 0
           /\ pc["getNode"] = "fetch" /\ call["getNode"].node = n
           /\ GetNodeDataFetch("getNode")) =>
              \/ last'.err = ErrQuery
              \/ call'["getNode"].err = ErrNodeNotFound /\ last'.io = {"directory"}]_vars
    /\ [][(pc["getNode"] = "store" /\ call["getNode"].err = ErrNodeNotFound
           /\ GetNodeDataStore("getNode")) =>
              (last'.code = 404 /\ last'.body = "Not Found")]_vars

C9_Witness ==
    /\ last.proc = "getNode" /\ last.step = "return" /\ last.code = 404
    /\ last.value = ""
    /\ last.node \notin directory
    /\ lruCache[last.node].twin = 0
    /\ StatusOf(store, last.node).body = Down

\* C10: a step of getNodeStatus does one GET and nothing else: the store,
\* the identity cache, the Directory and every getNodeData call in progress
\* are left as they were.
C10_StatusOnlyReads ==
    [][last'.proc = "getNodeStatus" =>
        /\ last'.io = {"redis_get"}
        /\ UNCHANGED <<directory, store, lruCache, pc, call, listing>>]_vars

C10_Witness ==
    /\ last.proc = "getNodeStatus" /\ last.step = "return"
    /\ last.body = LikelyDown
    /\ store[last.node].val = Marker
    /\ \E p \in Procs : pc[p] = "fetch"

\* C11: whatever a node's key holds and whether the GET succeeds or fails,
\* getNodeStatus writes exactly one response, with code 200 and a status among
\* "up", "likely down" and "down": "up" exactly when the GET returned a value
\* that is not the marker, "likely down" exactly when it returned the marker,
\* "down" exactly when it returned no value (no key, or the GET failed).
C11_StatusAnswersOnce ==
    [][\A n \in Nodes :
        (GetNodeStatus(n) \/ GetNodeStatusFailing(n)) =>
            LET r == IF last'.io = {"redis_get_failed"}
                     THEN GetRedisKeyFailing(store, n) ELSE GetRedisKey(store, n)
                w == getNodeStatusWrites(r.s, r.err)
            IN /\ Len(w) = 1
               /\ last'.code = 200 /\ last'.body = w[1]
               /\ w[1] \in {Up, LikelyDown, Down}
               /\ w[1] = Up <=> (r.err = NoErr /\ r.s # Marker)
               /\ w[1] = LikelyDown <=> r.s = Marker
               /\ w[1] = Down <=> r.err # NoErr]_vars

C11_Witness ==
    /\ last.proc = "getNodeStatus" /\ last.io = {"redis_get_failed"}
    /\ last.code = 200 /\ last.body = Down
    /\ IsSnapshot(store[last.node].val)

\* C12 as stated: no step listNodes takes for a node of its page queries the
\* node probe or the Directory: the node's status and capacity come from the
\* cache alone, also when the key is written, deleted or expires between the
\* status read and the capacity read.
C12_ListNodesNeverProbes ==
    (last.proc = "listNodes" /\ last.node \in Nodes) =>
        last.io \cap {"probe", "directory"} = {}

\* C13 as stated: every step by which listNodes is done with a node of its
\* page appends exactly one entry for that node to the result, whatever the
\* cache holds and whether or not the capacity lookup fails: an entry
\* "down" without capacity for a node that had no key when its status was
\* read, an entry with the capacity returned by the lookup for a node "up".
C13_EveryNodeListed ==
    [][(listing.page # <<>> /\ listing'.page = Tail(listing.page)) =>
        /\ Len(listing'.nodeList) = Len(listing.nodeList) + 1
        /\ LET e == listing'.nodeList[Len(listing'.nodeList)] IN
             /\ e.node = Head(listing.page)
             /\ (pc["listNodes"] = "loop" /\ store[e.node] = NoKey) =>
                    (e.status = "down" /\ e.cru = 0)
             /\ e.status = "up" => e.cru = Deserialize(last'.body).info.cru]_vars

C15_RepeatedReadSamePayload ==
    [][\A p \in Unforced, n \in Nodes :
        (/\ last.proc \in Unforced /\ last.step = "return"
         /\ last.node = n /\ last.err = NoErr
         /\ GetNodeDataRead(p, n)) =>
            /\ last'.step = "return" /\ last'.err = NoErr
            /\ last'.body = last.body]_vars

C15_Witness ==
    /\ last.proc = "listNodes" /\ last.step = "return" /\ last.err = NoErr
    /\ last.io = {"redis_get"} /\ IsSnapshot(last.body)
    /\ store[last.node] = [val |-> last.body, ex |-> SnapshotTTL]
    /\ pc["getNode"] = "idle"

\* C16: errors of the store are soft. When the SET fails after a successful
\* fetch, getNodeData still returns the new serialized snapshot without error
\* (getNode answers 200 with it) and the key is left as it was; when the GET
\* fails, getNodeData goes on as for a key that does not exist (it fetches,
\* with no previous value) and getNodeStatus answers "down"; and no call
\* ever returns the store's error, nor does getNode answer 500.
C16_StoreErrorsAreSoft ==
    /\ [][\A p \in Procs :
          (pc[p] = "store" /\ call[p].err = NoErr /\ GetNodeDataStoreFailing(p)) =>
              /\ last'.err = NoErr
              /\ last'.body = Serialize(call[p].info)
              /\ p = "getNode" => last'.code = 200
              /\ store' = store]_vars
    /\ [][\A p \in Procs, n \in Nodes :
          GetNodeDataReadFailing(p, n) =>
              /\ pc'[p] = "fetch"
              /\ call'[p] = [NoCall EXCEPT !.node = n]
              /\ UNCHANGED <<store, lruCache>>]_vars
    /\ [][\A n \in Nodes :
          GetNodeStatusFailing(n) => (last'.code = 200 /\ last'.body = Down)]_vars
    /\ [](last.err # ErrConn /\ (last.proc = "getNode" => last.code # 500))

C16_Witness ==
    /\ last.proc = "getNode" /\ last.step = "return"
    /\ last.io = {"redis_set_failed"}
    /\ last.code = 200 /\ IsSnapshot(last.body)
    /\ store[last.node] = NoKey

\* C17 as stated: a twin id that was stored less than 10 minutes ago is
\* served from the identity cache without a query to the Directory; an older
\* one is resolved from the Directory again; no entry is kept for more than
\* 15 minutes; and a resolution that fails or finds no node stores nothing.
C17_TwinFreshTenMinutes ==
    /\ [][\A n \in Nodes :
          (lruCache[n].twin # 0 /\ lruCache[n].age < 10 /\ FetchNodeData(n)) =>
              "directory" \notin last'.io]_vars
    /\ [][\A n \in Nodes :
          (lruCache[n].twin # 0 /\ lruCache[n].age >= 10 /\ FetchNodeData(n)) =>
              "directory" \in last'.io]_vars
    /\ [][\A n \in Nodes :
          (FetchNodeData(n) /\ last'.err \in {ErrNodeNotFound, ErrQuery}) =>
              lruCache' = lruCache]_vars
    /\ [](\A n \in Nodes : lruCache[n].age <= 15)

\* C18: in every reachable state, with workers and requests interleaved in
\* any way and store commands failing or not, the key of every node is
\* absent, or holds the marker "likely down" with its 10-minute expiry, or
\* holds one serialized NodeInfo with the 30-minute expiry; and what a call
\* has read from the key is one of these whole values too (the empty string
\* for no value), never a part or a mixture of them.
C18_KeyHoldsOneWholeValue ==
    /\ \A n \in Nodes :
          \/ store[n] = NoKey
          \/ store[n] = [val |-> Marker, ex |-> LikelyDownTTL]
          \/ IsSnapshot(store[n].val) /\ store[n].ex = SnapshotTTL
    /\ \A p \in Procs :
          call[p].value = "" \/ call[p].value = Marker \/ IsSnapshot(call[p].value)
    /\ last.value = "" \/ last.value = Marker \/ IsSnapshot(last.value)
    /\ last.proc = "getNodeStatus" => last.body \in {Up, LikelyDown, Down}

C18_Witness ==
    /\ last.proc = "getNodeStatus" /\ last.body = Up
    /\ pc["refresher"] = "store" /\ call["refresher"].node = last.node
    /\ FetchFailed("refresher") /\ IsSnapshot(call["refresher"].value)
    /\ pc["getNode"] = "store" /\ call["getNode"].err = NoErr

\* C19 as stated: every worker of a run of cacheNodesInfo gives its token of
\* the semaphore back in the end, and every run that has its list of nodes
\* gets to the end of it and returns: it does not wait forever to send on a
\* full channelLimit.
C19_EveryFetchReturns ==
    /\ \A c \in Cycles : (cycle[c].sem > 0) ~> (cycle[c].sem = 0)
    /\ \A c \in Cycles : (cycle[c].pc = "loop") ~> (cycle[c].pc = "returned")

\* C20 as stated: a fetch ends with ErrNodeNotFound only when the Directory
\* was queried and has no record of the node; and every other failed fetch,
\* whatever stage failed, has one and the same effect: the marker and
\* ErrLikelyDown when the call had read a snapshot from the key, otherwise no
\* key and ErrBadGateway; never ErrNodeNotFound.
C20_FailuresUniform ==
    /\ [][\A p \in Procs :
          (pc[p] = "fetch" /\ GetNodeDataFetch(p)
           /\ call'[p].err = ErrNodeNotFound) =>
              ("directory" \in last'.io /\ call[p].node \notin directory)]_vars
    /\ [][\A p \in Procs :
          (pc[p] = "store" /\ FetchFailed(p) /\ GetNodeDataStore(p)) =>
              /\ last'.err # ErrNodeNotFound
              /\ IF IsSnapshot(call[p].value)
                 THEN /\ store'[call[p].node] = [val |-> Marker, ex |-> LikelyDownTTL]
                      /\ last'.err = ErrLikelyDown
                 ELSE /\ store'[call[p].node] = NoKey
                      /\ last'.err = ErrBadGateway]_vars

\* C21: once the hypervisor (the dmi) of a node is in lruCache, no step
\* removes it and no fetch for the node asks the node for it again; it gets
\* into lruCache only by a fetch that asked the node for it; and a fetch whose
\* hypervisor or dmi probe fails stores nothing for it and ends with an error.
C21_HardwareFactsKept ==
    /\ [][\A n \in Nodes :
          /\ lruCache[n].hyp => lruCache'[n].hyp
          /\ lruCache[n].dmi => lruCache'[n].dmi]_vars
    /\ [][\A p \in Procs :
          (pc[p] = "fetch" /\ GetNodeDataFetch(p)) =>
              LET n == call[p].node IN
              /\ lruCache[n].hyp => "probe_hypervisor" \notin last'.io
              /\ lruCache[n].dmi => "probe_dmi" \notin last'.io
              /\ (~lruCache[n].hyp /\ lruCache'[n].hyp) =>
                     "probe_hypervisor" \in last'.io
              /\ (~lruCache[n].dmi /\ lruCache'[n].dmi) =>
                     "probe_dmi" \in last'.io
              /\ ("probe_hypervisor" \in last'.io /\ ~lruCache'[n].hyp) =>
                     (call'[p].err = ErrProbe /\ ~lruCache'[n].dmi)
              /\ ("probe_dmi" \in last'.io /\ ~lruCache'[n].dmi) =>
                     call'[p].err = ErrProbe]_vars

C21_Witness ==
    /\ last.proc = "refresher" /\ last.step = "fetch" /\ last.err = NoErr
    /\ last.io = {"directory", "probe"}
    /\ lruCache[last.node].hyp /\ lruCache[last.node].dmi

\* Replies of GET beyond those the store of the model gives: a string that is
\* neither the marker nor a snapshot, and the empty string without an error.
OtherReplies ==
    {[s |-> "garbage", err |-> NoErr], [s |-> "", err |-> NoErr],
     [s |-> Marker, err |-> NoErr], [s |-> "", err |-> ErrNil]}
    \cup {[s |-> Serialize(i), err |-> NoErr] : i \in NodeInfos}

\* The status getNodeStatus reports for a reply of GET, "" when it writes
\* nothing.
StatusWritten(r) ==
    IF getNodeStatusWrites(r.s, r.err) = <<>> THEN ""
    ELSE CHOOSE st \in {"up", "down", "likely down"} :
             getNodeStatusWrites(r.s, r.err) = <<SerializeStatus(st)>>

\* C22: for every reply of GET (key absent, command failed, marker, snapshot,
\* any other string) getNodeStatus reports the status listNodes gives the
\* node, and every status listNodes gives a node of its page is the one
\* getNodeStatus reports for the same reply.
C22_SameStatusAtBothSites ==
    /\ [](\A n \in Nodes :
            \A r \in {GetRedisKey(store, n), GetRedisKeyFailing(store, n)}
                      \cup OtherReplies :
                StatusWritten(r) = listNodesStatus(r.s, r.err))
    /\ [][(last'.proc = "listNodes" /\ last'.step = "status") =>
             last'.body =
                 StatusWritten(IF last'.io = {"redis_get"}
                               THEN GetRedisKey(store, last'.node)
                               ELSE GetRedisKeyFailing(store, last'.node))]_vars

C22_Witness ==
    /\ last.proc = "listNodes" /\ last.step = "status"
    /\ last.body = "likely down"
    /\ StatusOf(store, last.node).body = SerializeStatus("likely down")

\* C23: when the key of a node holds a snapshot and a call's fetch for the
\* node has failed with an error other than not-found, the call's last step
\* leaves the key holding the snapshot or the marker, never absent; also when
\* the call's own GET had failed.
C23_FailedProbeKeepsKey ==
    [][\A p \in Procs :
         (/\ pc[p] = "store" /\ FetchFailed(p)
          /\ IsSnapshot(store[call[p].node].val)
          /\ (GetNodeDataStore(p) \/ GetNodeDataStoreFailing(p)))
         => store'[call[p].node] # NoKey]_vars

\* The liveness state read off a key (spec 4.2).
Derived(k) ==
    IF k = NoKey THEN "down" ELSE IF k.val = Marker THEN "likely_down" ELSE "up"

\* C24: a call writes the marker only when the value it had read was a
\* snapshot, and no step takes the key of a node from absent (down) to the
\* marker (likely_down).
C24_NoDownToLikelyDown ==
    /\ [][\A p \in Procs :
          (pc[p] = "store" /\ GetNodeDataStore(p) /\ last'.err = ErrLikelyDown)
              => IsSnapshot(call[p].value)]_vars
    /\ [][\A n \in Nodes :
          ~(Derived(store[n]) = "down" /\ Derived(store'[n]) = "likely_down")]_vars

\* C25: a forced call that had read the marker and whose fetch fails (not
\* with not-found) leaves the store as it is and returns an error that is
\* neither bad gateway nor likely down; and no step SETs the marker on a key
\* that holds the marker, so the 10 minutes of a marker are counted from the
\* first failed probe.
C25_MarkerNotRewritten ==
    /\ [][\A p \in Workers :
          (/\ pc[p] = "store" /\ FetchFailed(p) /\ call[p].value = Marker
           /\ GetNodeDataStore(p))
          => /\ store' = store
             /\ last'.io = {}
             /\ last'.err \notin {NoErr, ErrBadGateway, ErrLikelyDown}]_vars
    /\ [][\A n \in Nodes :
          (store[n].val = Marker /\ last'.node = n /\ last'.step = "return")
              => ~(last'.err = ErrLikelyDown /\ "redis_set" \in last'.io)]_vars

\* C26: a call of getNodeData(nodeID, false) either returns the value of the
\* key and leaves the store alone, or, having read nothing, ends by writing
\* a snapshot, or by deleting the key with bad gateway or node-not-found; it
\* never returns ErrLikelyDown, and every step that takes a key to the marker
\* is the return of a forced call.
C26_UnforcedNeverMarks ==
    /\ [][\A p \in Unforced :
          /\ \A n \in Nodes :
               ((GetNodeDataRead(p, n) \/ GetNodeDataReadFailing(p, n))
                /\ pc'[p] # "fetch")
               => /\ store' = store
                  /\ last'.err = NoErr
                  /\ last'.body = store[n].val /\ last'.body # ""
          /\ (pc[p] = "store" /\ pc'[p] # "store")
              => /\ call[p].value = ""
                 /\ last'.proc = p
                 /\ \/ /\ last'.err = NoErr
                       /\ last'.io \in {{"redis_set"}, {"redis_set_failed"}}
                       /\ IsSnapshot(last'.body)
                    \/ /\ last'.err \in {ErrBadGateway, ErrNodeNotFound}
                       /\ last'.io \in {{"redis_del"}, {"redis_del_failed"}}
                 /\ store'[call[p].node].val # Marker
                        \/ store'[call[p].node] = store[call[p].node]]_vars
    /\ [][\A n \in Nodes :
          (store[n].val # Marker /\ store'[n].val = Marker)
              => (Force(last'.proc) /\ last'.step = "return"
                  /\ last'.err = ErrLikelyDown)]_vars

C26_Witness ==
    /\ last.proc = "listNodes" /\ last.step = "return"
    /\ last.err = ErrBadGateway /\ last.io = {"redis_del"}
    /\ last.value = "" /\ store[last.node] = NoKey

\* C27: when the step before was a call's return that deleted the key of a
\* node on a not-found outcome, another call for the node that had read the
\* key earlier and now takes its last step writes neither a snapshot nor the
\* marker: the key stays absent.
C27_NoWriteAfterNotFound ==
    [][\A p \in Procs :
         (/\ last.step = "return" /\ last.err = ErrNodeNotFound
          /\ last.io = {"redis_del"} /\ last.proc # p
          /\ pc[p] = "store" /\ call[p].node = last.node
          /\ GetNodeDataStore(p))
         => store'[call[p].node] = NoKey]_vars

\* C28: in every reachable state each run of cacheNodesInfo holds at most 30
\* slots of its channelLimit, never more than the workers it has started;
\* with 30 held and nodes left, the run cannot start another worker.
C28_RunWithinCap ==
    \A c \in Cycles :
        /\ cycle[c].sem <= maxGoRoutnes
        /\ cycle[c].sem <= cycle[c].i
        /\ (cycle[c].sem = maxGoRoutnes) => ~ENABLED CycleDispatch(c)

C28_Witness ==
    \E c \in Cycles :
        /\ cycle[c].pc = "loop" /\ cycle[c].n = NumFleetNodes
        /\ cycle[c].sem = maxGoRoutnes /\ cycle[c].i < cycle[c].n

\* C29: a run closes channelLimit only on its return, after it has started
\* its last worker and without waiting for the workers in flight; once the
\* channel is closed the run sends nothing on it, and a worker in flight can
\* always take its token back, closed or not.
C29_CloseLeavesWorkersFree ==
    \A c \in Cycles :
        /\ cycle[c].closed =>
               (cycle[c].pc = "returned" /\ cycle[c].i = cycle[c].n)
        /\ cycle[c].closed => ~ENABLED CycleDispatch(c)
        /\ (cycle[c].pc = "loop" /\ cycle[c].i = cycle[c].n) =>
               ENABLED CycleReturn(c)
        /\ cycle[c].sem > 0 => ENABLED WorkerDone(c)

C29_Witness ==
    \E c \in Cycles :
        /\ cycle[c].pc = "returned" /\ cycle[c].closed
        /\ cycle[c].sem = maxGoRoutnes

====
